---- MODULE Spec2Model ----
(***************************************************************************)
(* A model of the Teams chat exporter (teams_chat_export.py, teams_utils.py *)
(* and config.py): the paginated fetch loops, the message filter, the       *)
(* content normaliser and the export run as a sequential state machine.     *)
(* The remote server and the file system are the environment: every         *)
(* response is an input drawn from a small set when the request is issued.  *)
(***************************************************************************)
EXTENDS Integers, Sequences, FiniteSets, TLC

(***************************************************************************)
(* Bounds of the model.                                                     *)
(***************************************************************************)
\* URLs a paginated listing can be sent to (page 1 is the start URL).
NumPages == 3
\* Items in one page of a listing.
MaxBatch == 2
\* Messages the server holds for one chat or channel.
MaxItems == 2
\* Chats the server lists; teams it lists and channels a team has.
MaxChats == 1
MaxTeams == 1
\* Teams the server lists, and messages a channel holds, in the runs that
\* start at the listing of the teams.
WideTeams == 2
FewItems == 1
\* Messages in the history of a chat, and user messages among them, and the
\* members of a chat, in the runs of the processing of the chats.
MaxHistory == 11
MaxAuthored == 1
MaxMembers == 5
\* Tokens in a body given to the normalizer alone, and the export runs that
\* normalize it one after the other.
NormLen == 3
MaxRuns == 2
\* Tokens in the body of the message of the single-message runs.
MaxLen == 2
\* chats of a run of the sorting of the mappings
MaxSorted == 3

(***************************************************************************)
(* Program constants.                                                       *)
(***************************************************************************)
\* the progress line is refreshed when the total is a multiple of 20 or < 20
ProgressEvery == 20
MAX_MEMBERS_IN_CHAT_NAME == 3

VARIABLES
    pc,          \* position of the run / of the operation under study
    exc,         \* why the run ended early: "NoToken", "InvalidToken" or the
                 \* type of the exception that ended it ("none" otherwise)
    exit_status, \* the process exit status, -1 while the run goes on
    self,        \* the TeamsExporter object: its data fields
    queue,       \* what is left of the outer for-loop in progress
    queue2,      \* what is left of the loop over the current team's channels
    cur,         \* the team or the chat/channel section being processed
    filtered_messages, \* what is left of the loop that renders a section
    export_html, \* the document built so far: sidebar names and sections
    files,       \* the image files on disk
    output_written, \* the output document has been written
    ppc,         \* position of the pagination loop: "idle", "loop", "returned"
    url,         \* the pagination loop's current URL (NoUrl when exhausted)
    all_items,   \* the pagination loop's accumulator (all_items, all_messages)
    listing,     \* what is being listed: "chats", "teams", "channels",
                 \* "chat_messages" or "channel_messages" (the inline loop)
    gets,        \* requests issued so far to each URL of the listing (2 = more than
                 \* one), up to the first cursor that leads back to a requested URL
    served,      \* items the server handed out in successful responses, in order
    cursor,      \* the cursor of the last successful response (start URL before)
    failed,      \* a request of the listing got a non-success status or raised
    cyc,         \* a response carried a cursor to a URL already requested
    lateReq,     \* a request of the listing was issued after a failed one
    requested,   \* the kinds of request issued so far in the run
    transportFailed, \* some request after validation failed (status or exception)
    ignored_chats, \* the chat names in the IGNORED_CHATS list of config.py
    caps,        \* how many items the server holds for a listing of each kind
    probed,      \* while the chats are processed: what the server held for the
                 \* chat processed last, and what its requests returned
    norm         \* the body given to process_message_content in the runs of
                 \* the normalizer alone, and what its calls returned

runVars == <<pc, exc, exit_status, self, queue, queue2, cur, filtered_messages,
             export_html, files, output_written>>
loopVars == <<ppc, url, all_items, listing>>
obsVars == <<gets, served, cursor, failed, cyc, lateReq>>
logVars == <<requested, transportFailed>>
cfgVars == <<ignored_chats, caps>>
probeVars == <<probed, norm>>
vars == <<runVars, loopVars, obsVars, logVars, cfgVars, probeVars>>

NoUrl == 0
Pages == 1..NumPages

(***************************************************************************)
(* Message bodies.  A body is a sequence of tokens; a token stands for a    *)
(* piece of markup text: k is its kind, v its payload, x whether an image   *)
(* element carries attributes besides src.                                  *)
(*   txt  one visible character          ws   one whitespace character      *)
(*   ent  an entity &lt; or &gt;         lt, gt  a literal < or >           *)
(*   tag  <v>                            att  <attachment id="v">           *)
(*   emoji <emoji alt="v">               img  <img src="v"> (x: more attrs) *)
(*   a    <a href="v" class="lightbox">                                     *)
(***************************************************************************)
Txt(c) == [k |-> "txt", v |-> c, x |-> FALSE]
Ws == [k |-> "ws", v |-> " ", x |-> FALSE]
Ent(n) == [k |-> "ent", v |-> n, x |-> FALSE]
Lt == [k |-> "lt", v |-> "<", x |-> FALSE]
Gt == [k |-> "gt", v |-> ">", x |-> FALSE]
Tag(n) == [k |-> "tag", v |-> n, x |-> FALSE]
Att(i) == [k |-> "att", v |-> i, x |-> FALSE]
Emoji(alt) == [k |-> "emoji", v |-> alt, x |-> FALSE]
\* the self-closing form, <emoji alt="..."/>
EmojiSelfClosing(alt) == [k |-> "emoji", v |-> alt, x |-> TRUE]
Img(src, extra) == [k |-> "img", v |-> src, x |-> extra]
Anchor(href) == [k |-> "a", v |-> href, x |-> FALSE]

SystemEvent == Tag("systemEventMessage/")
EmptyP == <<Tag("p"), Tag("/p")>>
EmptyDiv == <<Tag("div"), Tag("/div")>>

\* image sources: one on the platform's content host, one elsewhere
GraphUrl == "https://graph.microsoft.com/v1.0/chats/c/messages/m/hostedContents/h/$value"
OtherUrl == "https://example.org/cat.png"
\* what a URL of the bodies can go on with after another URL of the bodies
UrlSuffixes == {"", "2"}
\* a second hosted image, whose URL the first one is a prefix of
GraphUrl2 == GraphUrl \o "2"
\* img_url.startswith("https://graph.microsoft.com")
IsGraphHosted(u) == u \in {GraphUrl, GraphUrl2}

\* the number of characters a token stands for
TokLen(t) ==
    CASE t.k \in {"ws", "lt", "gt"} -> 1
      [] t.k = "txt" -> Len(t.v)
      [] t.k = "ent" -> 4
      [] t.k = "tag" -> Len(t.v) + 2
      [] t.k = "att" -> Len(t.v) + 18
      [] t.k = "emoji" -> Len(t.v) + 14 + (IF t.x THEN 1 ELSE 0)
      [] t.k = "img" -> Len(t.v) + 12 + (IF t.x THEN 8 ELSE 0)
      [] t.k = "a" -> Len(t.v) + 28

RECURSIVE StrLen(_)
StrLen(s) == IF s = <<>> THEN 0 ELSE TokLen(Head(s)) + StrLen(Tail(s))

\* the character classes of a token, as the regular expression <[^>]+> sees
\* them: "<", ">", "s" (whitespace) and "c" (any other character)
Classes(t) ==
    CASE t.k = "txt" -> <<"c">>
      [] t.k = "ent" -> <<"c">>
      [] t.k = "ws" -> <<"s">>
      [] t.k = "lt" -> <<"<">>
      [] t.k = "gt" -> <<">">>
      [] OTHER -> <<"<", "c", ">">>

RECURSIVE Flatten(_)
Flatten(s) == IF s = <<>> THEN <<>> ELSE Classes(Head(s)) \o Flatten(Tail(s))

\* the first index j > i of cs holding ">", 0 when there is none
RECURSIVE NextGt(_, _)
NextGt(cs, i) ==
    IF i >= Len(cs) THEN 0
    ELSE IF cs[i + 1] = ">" THEN i + 1 ELSE NextGt(cs, i + 1)

\* re.sub(r'<[^>]+>', '', s) on character classes, scanning from index i
RECURSIVE StripFrom(_, _)
StripFrom(cs, i) ==
    IF i > Len(cs) THEN <<>>
    ELSE IF cs[i] = "<" /\ NextGt(cs, i) >= i + 2
         THEN StripFrom(cs, NextGt(cs, i) + 1)
         ELSE <<cs[i]>> \o StripFrom(cs, i + 1)

StripTags(s) == StripFrom(Flatten(s), 1)

\* bool(text.strip()) of a tag-stripped text: some non-whitespace character is left
HasText(cs) == \E i \in 1..Len(cs) : cs[i] # "s"

\* str.strip() on a body: leading and trailing whitespace dropped
RECURSIVE LStrip(_)
LStrip(s) == IF s # <<>> /\ Head(s).k = "ws" THEN LStrip(Tail(s)) ELSE s

RECURSIVE RStrip(_)
RStrip(s) ==
    IF s # <<>> /\ s[Len(s)].k = "ws" THEN RStrip(SubSeq(s, 1, Len(s) - 1)) ELSE s

Strip(s) == RStrip(LStrip(s))

Contains(s, t) == \E i \in 1..Len(s) : s[i] = t

\* re.findall(r'<img[^>]+src="([^"]+)"', s): the image sources, in order
RECURSIVE ImgMatches(_)
ImgMatches(s) ==
    IF s = <<>> THEN <<>>
    ELSE (IF Head(s).k = "img" THEN <<Head(s).v>> ELSE <<>>) \o ImgMatches(Tail(s))

(***************************************************************************)
(* Messages.  fromUser is from.user.displayName, NoUser when from, user or  *)
(* the name is missing; bodyForm tells whether body is null, a mapping      *)
(* without content, or a mapping with the content string.                   *)
(***************************************************************************)
NoUser == "(none)"
MESSAGE_TYPE_USER == "message"

\* the sender a message resolves to (teams_utils 265-273, export 454-462)
Sender(msg) == IF msg.fromUser = NoUser THEN "Unknown" ELSE msg.fromUser

\* validate_message_content raises: the body is touched only after the type
\* and sender checks, and msg.get('body', {}) is None for a null body
ValidateRaises(msg) ==
    /\ msg.messageType = MESSAGE_TYPE_USER
    /\ Sender(msg) # "Unknown"
    /\ msg.bodyForm = "null"

RawContent(msg) == IF msg.bodyForm = "str" THEN msg.content ELSE <<>>

validate_message_content(msg) ==
    IF msg.messageType # MESSAGE_TYPE_USER THEN FALSE
    ELSE IF Sender(msg) = "Unknown" THEN FALSE
    ELSE LET raw_content == RawContent(msg) IN
         IF raw_content = <<>> \/ Strip(raw_content) = <<>> THEN FALSE
         ELSE IF Contains(raw_content, SystemEvent) /\ StrLen(Strip(raw_content)) <= 50
              THEN FALSE
         ELSE LET has_text == HasText(StripTags(raw_content))
                  has_images == ImgMatches(raw_content) # <<>>
              IN has_text \/ has_images

(***************************************************************************)
(* The content normaliser (teams_utils.py).                                 *)
(***************************************************************************)
\* html.unescape: an entity becomes the character it names
UnescapeTok(t) ==
    IF t.k = "ent" THEN (IF t.v = "lt" THEN Lt ELSE Gt) ELSE t

Unescape(s) == [i \in 1..Len(s) |-> UnescapeTok(s[i])]

\* the first index j > i of s holding token t, 0 when there is none
RECURSIVE IndexAfter(_, _, _)
IndexAfter(s, i, t) ==
    IF i >= Len(s) THEN 0
    ELSE IF s[i + 1] = t THEN i + 1 ELSE IndexAfter(s, i + 1, t)

\* re.sub(r'<emoji[^>]*alt="([^"]+)"[^>]*>.*?</emoji>', r'\1', text): an emoji
\* element up to the first closing tag after it becomes its alt text
RECURSIVE replace_emoji_tags(_)
replace_emoji_tags(s) ==
    IF s = <<>> THEN <<>>
    ELSE LET j == IndexAfter(s, 1, Tag("/emoji")) IN
         IF Head(s).k = "emoji" /\ j > 0
         THEN <<Txt(Head(s).v)>> \o replace_emoji_tags(SubSeq(s, j + 1, Len(s)))
         ELSE <<Head(s)>> \o replace_emoji_tags(Tail(s))

NoPath == ""
IMAGE_FOLDER == "img"
\* os.path.join(folder, f"{message_id}_img{index}.jpg"), relative to index.html
LocalPath(message_id, index) ==
    IMAGE_FOLDER \o "/" \o message_id \o "_img" \o ToString(index) \o ".jpg"

DownloadOutcomes == {"ok", "http_error", "exception"}

\* a variant that does not look whether the file is there before it downloads
download_image_from_src_unconditional(src_url, fs, message_id, index, outcome) ==
    LET local_path == LocalPath(message_id, index) IN
    CASE outcome = "ok" ->
           [path |-> local_path, files |-> fs \cup {local_path}, req |-> TRUE]
      [] outcome = "http_error" ->
           [path |-> local_path, files |-> fs, req |-> TRUE]
      [] OTHER ->
           [path |-> NoPath, files |-> fs, req |-> TRUE]

\* download_image_from_src: [path, files, req]; req tells whether a GET was issued
download_image_from_src(src_url, fs, message_id, index, outcome) ==
    LET local_path == LocalPath(message_id, index) IN
    IF local_path \in fs
    THEN [path |-> local_path, files |-> fs, req |-> FALSE]
    ELSE CASE outcome = "ok" ->
                [path |-> local_path, files |-> fs \cup {local_path}, req |-> TRUE]
           [] outcome = "http_error" ->
                [path |-> local_path, files |-> fs, req |-> TRUE]
           [] OTHER ->
                [path |-> NoPath, files |-> fs, req |-> TRUE]

\* str.replace(img_url, local_img_path): every occurrence of the URL, also
\* where a longer URL begins with it
ReplaceUrl(s, old, new) ==
    [i \in 1..Len(s) |->
        IF s[i].k \in {"img", "a"} /\ \E x \in UrlSuffixes : s[i].v = old \o x
        THEN [s[i] EXCEPT !.v = new \o (CHOOSE x \in UrlSuffixes : s[i].v = old \o x)]
        ELSE s[i]]

\* the loop over img_matches, from (1-based) position i; st = [content, files,
\* req, fail, log]: fail tells whether a download that was requested failed,
\* log what happened to each reference: "skipped" (not hosted), "cached" (the
\* file was there) or the outcome of the request
RECURSIVE ImageLoop(_, _, _, _, _)
ImageLoop(st, img_matches, i, message_id, outs) ==
    IF i > Len(img_matches) THEN st
    ELSE LET img_url == img_matches[i] IN
         IF IsGraphHosted(img_url)
         THEN LET d == download_image_from_src(img_url, st.files, message_id, i - 1, outs[i])
                  c == IF d.path # NoPath
                       THEN ReplaceUrl(st.content, img_url, d.path) ELSE st.content
              IN ImageLoop([content |-> c, files |-> d.files, req |-> st.req \/ d.req,
                            fail |-> st.fail \/ (d.req /\ outs[i] # "ok"),
                            log |-> Append(st.log, IF d.req THEN outs[i] ELSE "cached")],
                           img_matches, i + 1, message_id, outs)
         ELSE ImageLoop([st EXCEPT !.log = Append(@, "skipped")],
                        img_matches, i + 1, message_id, outs)

\* re.sub(r'<img[^>]*src="([^"]+)"[^>]*>', r'<img src="\1">', content)
clean_img_tags(s) ==
    [i \in 1..Len(s) |-> IF s[i].k = "img" THEN Img(s[i].v, FALSE) ELSE s[i]]

\* re.sub(r'<img src="([^"]+)"\s*/?>', r'<a href="\1" class="lightbox"><img src="\1"></a>', content)
RECURSIVE wrap_images_with_lightbox(_)
wrap_images_with_lightbox(s) ==
    IF s = <<>> THEN <<>>
    ELSE (IF Head(s).k = "img" /\ ~Head(s).x
          THEN <<Anchor(Head(s).v), Head(s), Tag("/a")>>
          ELSE <<Head(s)>>) \o wrap_images_with_lightbox(Tail(s))

\* process_message_content: [content, files, req, fail, log]; outs gives the outcome of
\* the download of each image reference, by position
process_message_content(raw_content, message_id, fs, outs) ==
    LET unescaped == Unescape(raw_content)
        no_emoji == replace_emoji_tags(unescaped)
        img_matches == ImgMatches(no_emoji)
        st == ImageLoop([content |-> no_emoji, files |-> fs, req |-> FALSE,
                         fail |-> FALSE, log |-> <<>>],
                        img_matches, 1, message_id, outs)
    IN [st EXCEPT !.content = wrap_images_with_lightbox(clean_img_tags(st.content))]

\* the number of image references process_message_content iterates over
NumImages(raw_content) == Len(ImgMatches(replace_emoji_tags(Unescape(raw_content))))

(***************************************************************************)
(* Rendering (teams_chat_export.py).                                        *)
(***************************************************************************)
\* _generate_message_html: [html, files, req, fail]; html is <<>> for the empty
\* string and one message element otherwise.  A null body, or one that is not
\* a mapping, gives raw_content ''; a mapping whose content is null makes
\* html.unescape raise inside the try block: both return ''.
generate_message_html(msg, user_display_name, fs, outs) ==
    IF msg.bodyForm # "str"
    THEN [html |-> <<>>, files |-> fs, req |-> FALSE, fail |-> FALSE]
    ELSE LET p == process_message_content(msg.content, msg.id, fs, outs)
             clean_content == p.content
             content_check == StripTags(clean_content)
         IN IF clean_content = <<>> \/ Strip(clean_content) = <<>> \/ ~HasText(content_check)
            THEN [html |-> <<>>, files |-> p.files, req |-> p.req, fail |-> p.fail]
            ELSE [html |-> << [id |-> msg.id,
                               sender |-> Sender(msg),
                               css_class |-> IF Sender(msg) = user_display_name
                                             THEN "mine" ELSE "theirs",
                               text |-> clean_content] >>,
                  files |-> p.files, req |-> p.req, fail |-> p.fail]

\* the filter loop of _generate_chat_html (538-568) and of
\* _generate_channel_html (604-634) on one message: "skip", "keep" or "raise"
\* (msg.get('body', {}).get(...) raises for a null body, outside any try)
SectionFilter(msg) ==
    IF Sender(msg) = "Unknown" THEN "skip"
    ELSE IF msg.bodyForm = "null" THEN "raise"
    ELSE LET raw_content == RawContent(msg)
             raw_stripped == Strip(raw_content)
         IN IF raw_content = <<>> \/ raw_stripped = <<>> THEN "skip"
            ELSE IF \/ Contains(raw_content, SystemEvent)
                    \/ raw_stripped \in {<<>>, EmptyP, EmptyDiv}
                    \/ /\ Head(raw_stripped).k = "att"
                       /\ raw_stripped[Len(raw_stripped)] = Tag("/attachment")
                       /\ StrLen(raw_stripped) < 100
                    \/ /\ Len(raw_stripped) = 2
                       /\ raw_stripped[1].k = "att"
                       /\ raw_stripped[2] = Tag("/attachment")
                 THEN "skip"
                 ELSE "keep"

(***************************************************************************)
(* Strings, ordered dictionaries and sorting.                               *)
(***************************************************************************)
\* the characters of names and timestamps, in code point order
AsciiChars == " ,-.0123456789:ABCDEFGHIJKLMNOPQRSTUVWXYZabcdefghijklmnopqrstuvwxyz"
UpperChars == "ABCDEFGHIJKLMNOPQRSTUVWXYZ"
LowerChars == "abcdefghijklmnopqrstuvwxyz"

Ord(c) == CHOOSE i \in 1..Len(AsciiChars) : SubSeq(AsciiChars, i, i) = c

LowerChar(c) ==
    IF \E i \in 1..Len(UpperChars) : SubSeq(UpperChars, i, i) = c
    THEN LET i == CHOOSE j \in 1..Len(UpperChars) : SubSeq(UpperChars, j, j) = c
         IN SubSeq(LowerChars, i, i)
    ELSE c

\* str.lower()
RECURSIVE Lower(_)
Lower(str) == IF str = "" THEN "" ELSE LowerChar(Head(str)) \o Lower(Tail(str))

\* a < b for Python strings
RECURSIVE StrLess(_, _)
StrLess(a, b) ==
    IF b = "" THEN FALSE
    ELSE IF a = "" THEN TRUE
    ELSE IF Head(a) = Head(b) THEN StrLess(Tail(a), Tail(b))
    ELSE Ord(Head(a)) < Ord(Head(b))

\* sorted(): a stable sort of [key, val] records by key, ascending
RECURSIVE InsertByKey(_, _)
InsertByKey(sorted, e) ==
    IF sorted = <<>> THEN <<e>>
    ELSE IF StrLess(e.key, Head(sorted).key) THEN <<e>> \o sorted
    ELSE <<Head(sorted)>> \o InsertByKey(Tail(sorted), e)

RECURSIVE StableSort(_)
StableSort(s) ==
    IF s = <<>> THEN <<>>
    ELSE InsertByKey(StableSort(SubSeq(s, 1, Len(s) - 1)), s[Len(s)])

\* a topic that is JSON null (None in the program)
NullTopic == "<null>"

\* x[0].lower() raises AttributeError for a key that is None
SortRaises(chat_list) == \E i \in 1..Len(chat_list) : chat_list[i].k = NullTopic

\* a variant that compares the names as they are, capitals first
sort_chats_by_name_cased(chat_list) ==
    LET keyed == [i \in 1..Len(chat_list) |->
                    [key |-> chat_list[i].k, val |-> chat_list[i]]]
        sorted == StableSort(keyed)
    IN [i \in 1..Len(sorted) |-> sorted[i].val]

\* sort_chats_by_name on the items of a name-to-id dictionary
sort_chats_by_name(chat_list) ==
    LET keyed == [i \in 1..Len(chat_list) |->
                    [key |-> Lower(chat_list[i].k), val |-> chat_list[i]]]
        sorted == StableSort(keyed)
    IN [i \in 1..Len(sorted) |-> sorted[i].val]

\* a variant that leaves the messages in the order of the server
SortByCreatedNot(messages) == messages

\* messages.sort(key=lambda x: x.get('createdDateTime', ''))
SortByCreated(messages) ==
    LET keyed == [i \in 1..Len(messages) |->
                    [key |-> messages[i].createdDateTime, val |-> messages[i]]]
        sorted == StableSort(keyed)
    IN [i \in 1..Len(sorted) |-> sorted[i].val]

\* a Python dict: a sequence of [k, v] in insertion order
DictIndex(d, key) ==
    IF \E i \in 1..Len(d) : d[i].k = key
    THEN CHOOSE i \in 1..Len(d) : d[i].k = key
    ELSE 0

DictSet(d, key, val) ==
    IF DictIndex(d, key) > 0
    THEN [d EXCEPT ![DictIndex(d, key)].v = val]
    ELSE Append(d, [k |-> key, v |-> val])

DictGet(d, key) == d[DictIndex(d, key)].v

\* ', '.join(names)
RECURSIVE JoinNames(_)
JoinNames(names) ==
    IF names = <<>> THEN ""
    ELSE IF Len(names) = 1 THEN names[1]
    ELSE names[1] \o ", " \o JoinNames(Tail(names))

\* [x for x in s if x != drop]
RECURSIVE Without(_, _)
Without(s, drop) ==
    IF s = <<>> THEN <<>>
    ELSE (IF Head(s) = drop THEN <<>> ELSE <<Head(s)>>) \o Without(Tail(s), drop)

Min(a, b) == IF a < b THEN a ELSE b

(***************************************************************************)
(* What the server lists.                                                   *)
(***************************************************************************)
Message(id, type, from, form, content, created) ==
    [id |-> id, messageType |-> type, fromUser |-> from, bodyForm |-> form,
     content |-> content, createdDateTime |-> created]

\* the server need not list messages in the order of their creation
TimestampOf(n) == IF n % 2 = 1 THEN "2024-01-02T09:00:00Z" ELSE "2024-01-01T09:00:00Z"

MessageShapes == {"text", "nullbody", "image", "system"}

MessageOf(shape, n) ==
    LET id == "m" \o ToString(n) ts == TimestampOf(n) IN
    CASE shape = "text" ->
           Message(id, MESSAGE_TYPE_USER, "Alice", "str", <<Txt("x")>>, ts)
      [] shape = "nullbody" ->
           Message(id, MESSAGE_TYPE_USER, "Alice", "null", <<>>, ts)
      [] shape = "image" ->
           Message(id, MESSAGE_TYPE_USER, "Alice", "str", <<Img(GraphUrl, TRUE)>>, ts)
      [] OTHER ->
           Message(id, "systemEventMessage", NoUser, "str", <<SystemEvent>>, ts)

CHAT_TYPE_ONE_ON_ONE == "oneOnOne"
CHAT_TYPE_GROUP == "group"
CHAT_TYPE_MEETING == "meeting"
ChatShapes ==
    {CHAT_TYPE_ONE_ON_ONE, CHAT_TYPE_GROUP, CHAT_TYPE_MEETING} \X {"", "Budget"}
\* the chats of the runs of the processing of the chats: also without a topic
WideChatShapes ==
    {CHAT_TYPE_ONE_ON_ONE, CHAT_TYPE_GROUP, CHAT_TYPE_MEETING}
        \X {"", "Budget", NullTopic}
\* the chats of the runs of the sorting: topics of either case
SortChatShapes ==
    {CHAT_TYPE_ONE_ON_ONE, CHAT_TYPE_GROUP, CHAT_TYPE_MEETING}
        \X {"", "budget", "Zeta", NullTopic}
TeamNames == {"Employee Platform", "Dev"}
ChannelNames == {"General"}

IGNORED_CHANNELS == { <<"Employee Platform", "General">> }
\* the list as config.py ships it is empty; the user fills it in
IGNORED_CHATS == ignored_chats
\* the lists the runs are configured with
IgnoreLists == { {}, {"Budget"} }

Listings == {"chats", "teams", "channels", "chat_messages", "channel_messages"}

ItemShapes(l) ==
    CASE l = "chats" -> ChatShapes
      [] l = "teams" -> TeamNames
      [] l = "channels" -> ChannelNames
      [] OTHER -> MessageShapes

ItemOf(l, shape, n) ==
    CASE l = "chats" ->
           [id |-> "c" \o ToString(n), chatType |-> shape[1], topic |-> shape[2]]
      [] l = "teams" -> [id |-> "t" \o ToString(n), displayName |-> shape]
      [] l = "channels" -> [id |-> "ch" \o ToString(n), displayName |-> shape]
      [] OTHER -> MessageOf(shape, n)

\* items the server holds for one listing
ItemCap(l) == caps[l]

\* the server of the whole-run model
RunCaps ==
    [l \in Listings |->
        CASE l = "chats" -> MaxChats
          [] l \in {"teams", "channels"} -> MaxTeams
          [] OTHER -> MaxItems]

(***************************************************************************)
(* The paginated fetch.  A response is [status, batch, next]: the HTTP      *)
(* outcome, the page's 'value' list and its '@odata.nextLink' (NoUrl when   *)
(* absent).  Items are numbered in the order the server hands them out.     *)
(* Once the server has sent the client back to a URL already requested, it  *)
(* serves empty batches: the accumulator of a client going round a cursor   *)
(* cycle then stays finite.                                                 *)
(***************************************************************************)
\* a team's channels have different names
FreshNames(m, f) ==
    /\ \A i, j \in 1..m : f[i] = f[j] => i = j
    /\ \A i \in 1..m : \A k \in 1..Len(served) : served[k].displayName # f[i]

OkResponses(l) ==
    { [status |-> "ok",
       batch |-> [j \in 1..t[1] |-> ItemOf(l, t[2][j], Len(served) + j)],
       next |-> t[3]] :
         t \in { u \in UNION { {<<m, f, x>> : f \in [1..m -> ItemShapes(l)],
                                              x \in 0..NumPages}
                               : m \in 0..Min(MaxBatch, ItemCap(l) - Len(served)) } :
                   /\ (cyc \/ (u[3] # NoUrl /\ (u[3] = url \/ gets[u[3]] > 0))) => u[1] = 0
                   /\ l = "channels" => FreshNames(u[1], u[2]) } }

FailResponses ==
    { [status |-> st, batch |-> <<>>, next |-> NoUrl] : st \in {"http_error", "exception"} }

Responses(l) == OkResponses(l) \cup FailResponses

\* what the environment records of one request of a listing and its response
Observe(resp) ==
    /\ gets' = IF cyc THEN gets ELSE [gets EXCEPT ![url] = Min(@ + 1, 2)]
    /\ served' = IF resp.status = "ok" THEN served \o resp.batch ELSE served
    /\ cursor' = IF resp.status = "ok" THEN resp.next ELSE cursor
    /\ failed' = (failed \/ resp.status # "ok")
    /\ cyc' = (cyc \/ (resp.status = "ok" /\ resp.next # NoUrl
                        /\ (resp.next = url \/ gets[resp.next] > 0)))
    /\ lateReq' = (lateReq \/ failed)
    /\ requested' = requested \cup {listing}
    /\ transportFailed' = (transportFailed \/ resp.status # "ok")

\* variants of the loop body that the claims below must tell apart from it:
\* a failed request is tried again
PaginatedLoopBodyRetrying(resp) ==
    IF resp.status = "ok"
    THEN /\ all_items' = all_items \o resp.batch
         /\ url' = resp.next
         /\ ppc' = IF resp.next = NoUrl THEN "returned" ELSE "loop"
    ELSE /\ ppc' = "loop"
         /\ UNCHANGED <<all_items, url>>

\* a failed request is not caught: the call ends by raising, not by returning
PaginatedLoopBodyRaising(resp) ==
    IF resp.status = "ok"
    THEN /\ all_items' = all_items \o resp.batch
         /\ url' = resp.next
         /\ ppc' = IF resp.next = NoUrl THEN "returned" ELSE "loop"
    ELSE /\ ppc' = "raised"
         /\ UNCHANGED <<all_items, url>>

\* one iteration of 'while url:' in _make_paginated_request
PaginatedLoopBody(resp) ==
    IF resp.status = "ok"
    THEN /\ all_items' = all_items \o resp.batch
         /\ url' = resp.next
         /\ ppc' = IF resp.next = NoUrl THEN "returned" ELSE "loop"
    ELSE \* a non-200 status, or an exception caught by the loop: break
         /\ ppc' = "returned"
         /\ UNCHANGED <<all_items, url>>

\* one iteration of the inline 'while url:' of fetch_teams_and_channels: the
\* progress line counts the messages with content inside the try block
ChannelLoopBody(resp) ==
    IF resp.status = "ok"
    THEN LET all_messages == all_items \o resp.batch
             progress == Len(all_messages) % ProgressEvery = 0
                         \/ Len(all_messages) < ProgressEvery
             raises == progress /\ \E i \in 1..Len(all_messages) :
                                       ValidateRaises(all_messages[i])
         IN /\ all_items' = all_messages
            /\ IF raises
               THEN \* caught by 'except Exception': break, url not advanced
                    /\ ppc' = "returned"
                    /\ url' = url
               ELSE /\ url' = resp.next
                    /\ ppc' = IF resp.next = NoUrl THEN "returned" ELSE "loop"
    ELSE /\ ppc' = "returned"
         /\ UNCHANGED <<all_items, url>>

\* a variant in which an exception of requests.get is not caught by the loop
PageStepUncaught ==
    /\ ppc = "loop" /\ listing # "channel_messages" /\ url # NoUrl
    /\ \E resp \in Responses(listing) :
         /\ PaginatedLoopBody(resp) /\ Observe(resp)
         /\ IF resp.status = "exception"
            THEN pc' = "exit" /\ exit_status' = 1 /\ exc' = "RequestException"
            ELSE UNCHANGED <<pc, exc, exit_status>>
    /\ UNCHANGED <<self, queue, queue2, cur, filtered_messages, export_html, files,
                   output_written, listing>>
    /\ UNCHANGED <<cfgVars, probeVars>>

\* a GET of _make_paginated_request and what the loop does with its response
PageStep ==
    /\ ppc = "loop" /\ listing # "channel_messages" /\ url # NoUrl
    /\ \E resp \in Responses(listing) : PaginatedLoopBody(resp) /\ Observe(resp)
    /\ UNCHANGED <<runVars, listing>>
    /\ UNCHANGED <<cfgVars, probeVars>>

\* a GET of the inline channel loop and what the loop does with its response
ChannelPageStep ==
    /\ ppc = "loop" /\ listing = "channel_messages" /\ url # NoUrl
    /\ \E resp \in Responses(listing) : ChannelLoopBody(resp) /\ Observe(resp)
    /\ UNCHANGED <<runVars, listing>>
    /\ UNCHANGED <<cfgVars, probeVars>>

\* the loop starts on the listing's start URL with an empty accumulator
StartListing(l) ==
    /\ ppc' = "loop"
    /\ url' = 1
    /\ all_items' = <<>>
    /\ listing' = l
    /\ gets' = [p \in Pages |-> 0]
    /\ served' = <<>>
    /\ cursor' = 1
    /\ failed' = FALSE
    /\ cyc' = FALSE
    /\ lateReq' = FALSE

\* the caller has taken the result
EndListing ==
    /\ ppc' = "idle"
    /\ url' = NoUrl
    /\ all_items' = <<>>
    /\ listing' = listing
    /\ gets' = [p \in Pages |-> 0]
    /\ served' = <<>>
    /\ cursor' = NoUrl
    /\ failed' = FALSE
    /\ cyc' = FALSE
    /\ lateReq' = FALSE

(***************************************************************************)
(* Chats: the inclusion probe, the members and the display names.           *)
(***************************************************************************)
ME == "Me"
\* '$top=10' of the probe's URL
PROBE_TOP == 10

\* the message types of a chat's history, in the order the server lists them
Histories ==
    { <<>>, <<"systemEventMessage">>, <<"systemEventMessage", MESSAGE_TYPE_USER>> }

\* the histories of up to MaxHistory messages, at most MaxAuthored of them
\* user messages
WideHistories ==
    { h \in UNION { [1..n -> {"systemEventMessage", MESSAGE_TYPE_USER}] :
                       n \in 0..MaxHistory } :
        Cardinality({i \in 1..Len(h) : h[i] = MESSAGE_TYPE_USER}) <= MaxAuthored }

\* the response to the probe: the first PROBE_TOP messages of the history
ProbeOf(status, history) ==
    [status |-> status,
     types |-> IF status = "ok"
               THEN SubSeq(history, 1, Min(PROBE_TOP, Len(history)))
               ELSE <<>>]

\* the member lists of up to MaxMembers of these names, in any order
RECURSIVE Orderings(_)
Orderings(S) ==
    IF S = {} THEN {<<>>}
    ELSE UNION { {<<x>> \o t : t \in Orderings(S \ {x})} : x \in S }

WideMemberResponses ==
    { [status |-> "http_error", names |-> <<>>],
      [status |-> "exception", names |-> <<>>] }
    \cup { [status |-> "ok", names |-> t] :
             t \in UNION { Orderings(S) :
                             S \in { R \in SUBSET {ME, "Alice", "Bob", "Carol", "Dan"} :
                                       Cardinality(R) <= MaxMembers } } }

MemberResponses ==
    { [status |-> "http_error", names |-> <<>>],
      [status |-> "exception", names |-> <<>>],
      [status |-> "ok", names |-> <<ME, "Alice">>],
      [status |-> "ok", names |-> <<ME, "Alice", "Bob", "Carol", "Dan">>] }

\* 'not chat_name': the topic is empty, absent or null
Falsy(topic) == topic \in {"", NullTopic}

\* chat_has_messages: a user message among the first messages of the chat
chat_has_messages(probe) ==
    /\ probe.status = "ok"
    /\ \E i \in 1..Len(probe.types) : probe.types[i] = MESSAGE_TYPE_USER

\* _get_chat_members: the members, [] on a non-200 status or an exception
get_chat_members(mresp) == IF mresp.status = "ok" THEN mresp.names ELSE <<>>

\* create_member_list_display: [limited, full]
create_member_list_display(member_names, max_display) ==
    IF member_names = <<>> THEN [limited |-> "Unknown", full |-> "Unknown"]
    ELSE [limited |-> JoinNames(SubSeq(member_names, 1, Min(max_display, Len(member_names))))
                        \o (IF Len(member_names) > max_display THEN "..." ELSE ""),
          full |-> JoinNames(member_names)]

process_one_on_one_chat(s, chat, probe, mresp) ==
    IF ~chat_has_messages(probe) THEN s
    ELSE LET others == Without(get_chat_members(mresp), s.user_display_name)
             display_name == IF others # <<>> THEN others[1] ELSE "Unknown"
             chat_name == IF ~Falsy(chat.topic) THEN chat.topic
                          ELSE "Chat with " \o display_name
         IN [s EXCEPT !.chats_one_on_one = DictSet(@, chat_name, chat.id)]

process_group_chat(s, chat, probe, mresp) ==
    IF ~chat_has_messages(probe) THEN s
    ELSE LET other_members == Without(get_chat_members(mresp), s.user_display_name)
             d == create_member_list_display(other_members, MAX_MEMBERS_IN_CHAT_NAME)
             chat_name == IF ~Falsy(chat.topic) THEN chat.topic
                          ELSE IF d.limited # "" THEN "Group: " \o d.limited
                          ELSE "Group: Unknown"
         IN [s EXCEPT !.chats_group = DictSet(@, chat_name, chat.id),
                      !.group_full_member_lists = DictSet(@, chat_name, d.full)]

\* a variant that leaves the authenticated user out of the stored list
process_meeting_chat_others(s, chat, probe, mresp) ==
    IF ~chat_has_messages(probe) THEN s
    ELSE LET member_names == Without(get_chat_members(mresp), s.user_display_name)
             full_member_list == IF member_names # <<>> THEN JoinNames(member_names)
                                 ELSE "Unknown"
         IN [s EXCEPT !.chats_meeting = DictSet(@, chat.topic, chat.id),
                      !.meeting_full_member_lists =
                          DictSet(@, chat.topic, full_member_list)]

process_meeting_chat(s, chat, probe, mresp) ==
    IF ~chat_has_messages(probe) THEN s
    ELSE LET member_names == get_chat_members(mresp)
             full_member_list == IF member_names # <<>> THEN JoinNames(member_names)
                                 ELSE "Unknown"
         IN [s EXCEPT !.chats_meeting = DictSet(@, chat.topic, chat.id),
                      !.meeting_full_member_lists =
                          DictSet(@, chat.topic, full_member_list)]

\* whether processing the chat asks for its members
AsksMembers(chat, probe) ==
    /\ chat_has_messages(probe)
    /\ (chat.chatType = CHAT_TYPE_ONE_ON_ONE => Falsy(chat.topic))

(***************************************************************************)
(* Channels: the filter after the fetch and the placeholders.               *)
(***************************************************************************)
NowStamp == "2026-11-03T13:00:00.000001"

NoMessagesPlaceholder ==
    Message("no_messages", "(absent)", "System", "str",
            <<Txt("No messages found in this channel.")>>, NowStamp)

IgnoredPlaceholder(team_name, channel_name) ==
    Message("ignored_channel", "(absent)", "System", "str",
            <<Txt("This channel has been ignored due to configuration settings."),
              Tag("br"), Tag("br"), Txt("Team: " \o team_name), Tag("br"),
              Txt("Channel: " \o channel_name), Tag("br"), Tag("br"),
              Txt("To enable message fetching, remove this channel from the IGNORED_CHANNELS list in config.py.")>>,
            NowStamp)

\* [msg for msg in s if validate_message_content(msg)]
RECURSIVE ValidMessages(_)
ValidMessages(s) ==
    IF s = <<>> THEN <<>>
    ELSE (IF validate_message_content(Head(s)) THEN <<Head(s)>> ELSE <<>>)
         \o ValidMessages(Tail(s))

\* fetch_teams_and_channels 366-380: what is stored for the channel
ChannelStored(all_messages) ==
    LET filtered == ValidMessages(all_messages)
    IN IF filtered = <<>> THEN <<NoMessagesPlaceholder>> ELSE filtered

\* the messages the filter loop of a section keeps
RECURSIVE SectionKept(_)
SectionKept(s) ==
    IF s = <<>> THEN <<>>
    ELSE (IF SectionFilter(Head(s)) = "keep" THEN <<Head(s)>> ELSE <<>>)
         \o SectionKept(Tail(s))

SectionRaises(s) == \E i \in 1..Len(s) : SectionFilter(s[i]) = "raise"

(***************************************************************************)
(* The run: main, run_export and the steps they call.                       *)
(***************************************************************************)
NoCur == [kind |-> "none", name |-> "", id |-> "", team |-> ""]

\* TeamsExporter.__init__ before the display name is fetched
NewExporter ==
    [user_display_name |-> "",
     chats_one_on_one |-> <<>>, chats_group |-> <<>>, chats_meeting |-> <<>>,
     group_full_member_lists |-> <<>>, meeting_full_member_lists |-> <<>>,
     channels_by_team |-> <<>>, channel_messages |-> <<>>]

NoExport == [sidebar |-> <<>>, sections |-> <<>>]

TransportOutcomes == {"ok", "http_error", "exception"}

\* the 'except Exception' of run_export, and the sys.exit(1) of its callees
Abort(kind) ==
    /\ pc' = "exit"
    /\ exit_status' = 1
    /\ exc' = kind

\* main: the token check, then the constructor, which asks /me for the name
Main ==
    /\ pc = "start"
    /\ \E configured \in BOOLEAN, me \in TransportOutcomes :
         IF ~configured
         THEN /\ Abort("NoToken")
              /\ UNCHANGED <<self, requested>>
         ELSE /\ self' = [NewExporter EXCEPT !.user_display_name =
                              IF me = "ok" THEN ME ELSE "Unknown User"]
              /\ requested' = requested \cup {"me"}
              /\ pc' = "validate"
              /\ UNCHANGED <<exc, exit_status>>
    /\ UNCHANGED <<queue, queue2, cur, filtered_messages, export_html, files,
                   output_written, loopVars, obsVars, transportFailed>>
    /\ UNCHANGED <<cfgVars, probeVars>>

\* a variant in which run_export ignores the result of the probe
ValidateAccessTokenIgnored ==
    /\ pc = "validate"
    /\ \E probe \in TransportOutcomes \cup {"unauthorized"} :
         /\ pc' = "fetch_chats"
         /\ exc' = IF probe = "ok" THEN exc ELSE "InvalidToken"
         /\ UNCHANGED exit_status
    /\ requested' = requested \cup {"me"}
    /\ UNCHANGED <<self, queue, queue2, cur, filtered_messages, export_html, files,
                   output_written, loopVars, obsVars, transportFailed>>
    /\ UNCHANGED <<cfgVars, probeVars>>

\* run_export up to the validation probe: _validate_access_token
ValidateAccessToken ==
    /\ pc = "validate"
    /\ \E probe \in TransportOutcomes \cup {"unauthorized"} :
         IF probe = "ok"
         THEN pc' = "fetch_chats" /\ UNCHANGED <<exc, exit_status>>
         ELSE Abort("InvalidToken")
    /\ requested' = requested \cup {"me"}
    /\ UNCHANGED <<self, queue, queue2, cur, filtered_messages, export_html, files,
                   output_written, loopVars, obsVars, transportFailed>>
    /\ UNCHANGED <<cfgVars, probeVars>>

\* fetch_all_chats: the listing of the chats
FetchAllChats ==
    /\ pc = "fetch_chats"
    /\ pc' = "list_chats"
    /\ StartListing("chats")
    /\ UNCHANGED <<exc, exit_status, self, queue, queue2, cur, filtered_messages,
                   export_html, files, output_written, logVars>>
    /\ UNCHANGED <<cfgVars, probeVars>>

ChatsListed ==
    /\ pc = "list_chats" /\ ppc = "returned"
    /\ queue' = all_items
    /\ pc' = "process_chats"
    /\ EndListing
    /\ UNCHANGED <<exc, exit_status, self, queue2, cur, filtered_messages,
                   export_html, files, output_written, logVars>>
    /\ UNCHANGED <<cfgVars, probeVars>>

\* no call of the normalizer is under study
NoNorm == [raw |-> <<>>, id |-> "", calls |-> <<>>, again |-> <<>>]

\* no chat has been processed yet; the members were not asked for
NotAsked == [status |-> "none", names |-> <<>>]
NoProbe ==
    [chat |-> [id |-> "", chatType |-> "", topic |-> ""], history |-> <<>>,
     status |-> "none", members |-> NotAsked]

\* one iteration of 'for chat in chats', for a server whose chats have these
\* histories and answer the members request in these ways
ProcessChatWith(histories, memberResponses) ==
    /\ pc = "process_chats" /\ queue # <<>>
    /\ LET chat == Head(queue) IN
       \E history \in histories, status \in TransportOutcomes,
          mresp \in memberResponses :
         LET probe == ProbeOf(status, history) IN
         /\ UNCHANGED norm
         /\ probed' = [chat |-> chat, history |-> history, status |-> status,
                       members |-> IF AsksMembers(chat, probe) THEN mresp
                                   ELSE NotAsked]
         /\ self' = CASE chat.chatType = CHAT_TYPE_ONE_ON_ONE ->
                           process_one_on_one_chat(self, chat, probe, mresp)
                      [] chat.chatType = CHAT_TYPE_GROUP ->
                           process_group_chat(self, chat, probe, mresp)
                      [] chat.chatType = CHAT_TYPE_MEETING ->
                           process_meeting_chat(self, chat, probe, mresp)
                      [] OTHER -> self
         /\ requested' = requested \cup {"probe"}
                           \cup (IF AsksMembers(chat, probe) THEN {"members"} ELSE {})
         /\ transportFailed' = (\/ transportFailed
                                \/ probe.status # "ok"
                                \/ AsksMembers(chat, probe) /\ mresp.status # "ok")
    /\ queue' = Tail(queue)
    /\ UNCHANGED <<pc, exc, exit_status, queue2, cur, filtered_messages, export_html,
                   files, output_written, loopVars, obsVars>>
    /\ UNCHANGED cfgVars

ProcessChat == ProcessChatWith(Histories, MemberResponses)

\* the end of fetch_all_chats: the three dictionaries are sorted by name
SortChats ==
    /\ pc = "process_chats" /\ queue = <<>>
    /\ IF \E d \in {self.chats_one_on_one, self.chats_group, self.chats_meeting} :
             SortRaises(d)
       THEN /\ Abort("AttributeError")
            /\ UNCHANGED self
       ELSE /\ self' = [self EXCEPT !.chats_one_on_one = sort_chats_by_name(@),
                                    !.chats_group = sort_chats_by_name(@),
                                    !.chats_meeting = sort_chats_by_name(@)]
            /\ pc' = "fetch_teams"
            /\ UNCHANGED <<exc, exit_status>>
    /\ probed' = NoProbe
    /\ UNCHANGED norm
    /\ UNCHANGED <<queue, queue2, cur, filtered_messages,
                   export_html, files, output_written, loopVars, obsVars, logVars>>
    /\ UNCHANGED cfgVars

\* fetch_teams_and_channels: the listing of the joined teams
FetchTeams ==
    /\ pc = "fetch_teams"
    /\ pc' = "list_teams"
    /\ StartListing("teams")
    /\ UNCHANGED <<exc, exit_status, self, queue, queue2, cur, filtered_messages,
                   export_html, files, output_written, logVars>>
    /\ UNCHANGED <<cfgVars, probeVars>>

TeamsListed ==
    /\ pc = "list_teams" /\ ppc = "returned"
    /\ queue' = all_items
    /\ queue2' = <<>>
    /\ pc' = "channels"
    /\ EndListing
    /\ UNCHANGED <<exc, exit_status, self, cur, filtered_messages, export_html,
                   files, output_written, logVars>>
    /\ UNCHANGED <<cfgVars, probeVars>>

\* 'for team in teams': the listing of the team's channels
TeamBegin ==
    /\ pc = "channels" /\ queue2 = <<>> /\ queue # <<>>
    /\ cur' = [kind |-> "team", name |-> "", id |-> Head(queue).id,
               team |-> Head(queue).displayName]
    /\ queue' = Tail(queue)
    /\ pc' = "list_channels"
    /\ StartListing("channels")
    /\ UNCHANGED <<exc, exit_status, self, queue2, filtered_messages, export_html,
                   files, output_written, logVars>>
    /\ UNCHANGED <<cfgVars, probeVars>>

ChannelsListed ==
    /\ pc = "list_channels" /\ ppc = "returned"
    /\ self' = [self EXCEPT !.channels_by_team = DictSet(@, cur.team, <<>>)]
    /\ queue2' = all_items
    /\ pc' = "channels"
    /\ EndListing
    /\ UNCHANGED <<exc, exit_status, queue, cur, filtered_messages, export_html,
                   files, output_written, logVars>>
    /\ UNCHANGED <<cfgVars, probeVars>>

\* 'for channel in channels' up to the inline loop
ChannelBegin ==
    /\ pc = "channels" /\ queue2 # <<>>
    /\ LET channel == Head(queue2)
           channel_name == channel.displayName
           listed == [self EXCEPT !.channels_by_team =
                        DictSet(@, cur.team,
                                Append(DictGet(@, cur.team),
                                       <<channel_name, cur.id, channel.id>>))]
       IN /\ queue2' = Tail(queue2)
          /\ cur' = [cur EXCEPT !.kind = "channel", !.name = channel_name]
          /\ IF <<cur.team, channel_name>> \in IGNORED_CHANNELS
             THEN /\ self' = [listed EXCEPT !.channel_messages =
                                 DictSet(@, <<cur.team, channel_name>>,
                                         <<IgnoredPlaceholder(cur.team, channel_name)>>)]
                  /\ UNCHANGED <<pc, loopVars, obsVars>>
             ELSE /\ self' = listed
                  /\ pc' = "list_channel_messages"
                  /\ StartListing("channel_messages")
    /\ UNCHANGED <<exc, exit_status, queue, filtered_messages, export_html, files,
                   output_written, logVars>>
    /\ UNCHANGED <<cfgVars, probeVars>>

\* lines 366-380: the filter, the placeholder, the store
ChannelFetched ==
    /\ pc = "list_channel_messages" /\ ppc = "returned"
    /\ IF \E i \in 1..Len(all_items) : ValidateRaises(all_items[i])
       THEN /\ Abort("AttributeError")
            /\ UNCHANGED self
       ELSE /\ self' = [self EXCEPT !.channel_messages =
                           DictSet(@, <<cur.team, cur.name>>, ChannelStored(all_items))]
            /\ pc' = "channels"
            /\ UNCHANGED <<exc, exit_status>>
    /\ EndListing
    /\ UNCHANGED <<queue, queue2, cur, filtered_messages, export_html, files,
                   output_written, logVars>>
    /\ UNCHANGED <<cfgVars, probeVars>>

(***************************************************************************)
(* generate_html_export and save_export.                                    *)
(***************************************************************************)
ChatEntities(d, kind) ==
    [i \in 1..Len(d) |->
        [kind |-> kind, name |-> d[i].k, id |-> d[i].v, team |-> "", messages |-> <<>>]]

ChannelEntities(d) ==
    [i \in 1..Len(d) |->
        [kind |-> "channel", name |-> d[i].k[2], id |-> "", team |-> d[i].k[1],
         messages |-> d[i].v]]

Keys(d) == [i \in 1..Len(d) |-> d[i].k]

Sidebar(s) ==
    [oneonone |-> Keys(s.chats_one_on_one),
     group |-> Keys(s.chats_group),
     meeting |-> Keys(s.chats_meeting),
     teams |-> [i \in 1..Len(s.channels_by_team) |->
                   [team |-> s.channels_by_team[i].k,
                    channels |-> [j \in 1..Len(s.channels_by_team[i].v) |->
                                     s.channels_by_team[i].v[j][1]]]]]

Section(e, elements) ==
    [kind |-> e.kind, name |-> e.name, team |-> e.team, elements |-> elements]

IgnoredChatElement(chat_name) ==
    [id |-> "ignored_chat", sender |-> "System", css_class |-> "theirs",
     text |-> <<Txt("This chat has been ignored due to configuration settings."),
                Tag("br"), Tag("br"), Txt("Chat: " \o chat_name)>>]

\* the sidebar and the cover page; the sections follow in dictionary order
GenerateHtmlExport ==
    /\ pc = "channels" /\ queue2 = <<>> /\ queue = <<>>
    /\ export_html' = [sidebar |-> Sidebar(self), sections |-> <<>>]
    /\ queue' = ChatEntities(self.chats_one_on_one, "oneonone")
                  \o ChatEntities(self.chats_group, "group")
                  \o ChatEntities(self.chats_meeting, "meeting")
                  \o ChannelEntities(self.channel_messages)
    /\ pc' = "generate"
    /\ cur' = NoCur
    /\ UNCHANGED <<exc, exit_status, self, queue2, filtered_messages, files,
                   output_written, loopVars, obsVars, logVars>>
    /\ UNCHANGED <<cfgVars, probeVars>>

\* _generate_chat_html up to the fetch of the chat's messages
ChatSectionBegin ==
    /\ pc = "generate" /\ queue # <<>> /\ Head(queue).kind # "channel"
    /\ LET e == Head(queue) IN
         /\ queue' = Tail(queue)
         /\ cur' = [kind |-> e.kind, name |-> e.name, id |-> e.id, team |-> ""]
         /\ IF e.name \in IGNORED_CHATS
            THEN /\ export_html' = [export_html EXCEPT !.sections =
                                      Append(@, Section(e, <<IgnoredChatElement(e.name)>>))]
                 /\ UNCHANGED <<pc, loopVars, obsVars>>
            ELSE /\ export_html' = [export_html EXCEPT !.sections =
                                      Append(@, Section(e, <<>>))]
                 /\ pc' = "chat_fetch"
                 /\ StartListing("chat_messages")
    /\ UNCHANGED <<exc, exit_status, self, queue2, filtered_messages, files,
                   output_written, logVars>>
    /\ UNCHANGED <<cfgVars, probeVars>>

\* _generate_chat_html 532-568: the sort and the filter loop
ChatFetched ==
    /\ pc = "chat_fetch" /\ ppc = "returned"
    /\ LET messages == SortByCreated(all_items) IN
         IF SectionRaises(messages)
         THEN /\ Abort("AttributeError")
              /\ UNCHANGED filtered_messages
         ELSE /\ filtered_messages' = SectionKept(messages)
              /\ pc' = "render"
              /\ UNCHANGED <<exc, exit_status>>
    /\ EndListing
    /\ UNCHANGED <<self, queue, queue2, cur, export_html, files, output_written,
                   logVars>>
    /\ UNCHANGED <<cfgVars, probeVars>>

\* _generate_channel_html 591-634: the sort (in place) and the filter loop
ChannelSectionBegin ==
    /\ pc = "generate" /\ queue # <<>> /\ Head(queue).kind = "channel"
    /\ LET e == Head(queue)
           messages == SortByCreated(e.messages)
           ignored == <<e.team, e.name>> \in IGNORED_CHANNELS
       IN /\ queue' = Tail(queue)
          /\ cur' = [kind |-> e.kind, name |-> e.name, id |-> e.id, team |-> e.team]
          /\ self' = [self EXCEPT !.channel_messages =
                         DictSet(@, <<e.team, e.name>>, messages)]
          /\ IF ~ignored /\ SectionRaises(messages)
             THEN /\ Abort("AttributeError")
                  /\ UNCHANGED <<filtered_messages, export_html>>
             ELSE /\ filtered_messages' = IF ignored THEN messages
                                          ELSE SectionKept(messages)
                  /\ export_html' = [export_html EXCEPT !.sections =
                                        Append(@, Section(e, <<>>))]
                  /\ pc' = "render"
                  /\ UNCHANGED <<exc, exit_status>>
    /\ UNCHANGED <<queue2, files, output_written, loopVars, obsVars, logVars>>
    /\ UNCHANGED <<cfgVars, probeVars>>

\* one iteration of 'for msg in filtered_messages' of either section
RenderMessage ==
    /\ pc = "render" /\ filtered_messages # <<>>
    /\ LET msg == Head(filtered_messages) IN
       \E outs \in [1..NumImages(RawContent(msg)) -> DownloadOutcomes] :
         LET r == generate_message_html(msg, self.user_display_name, files, outs)
             n == Len(export_html.sections)
         IN /\ export_html' = [export_html EXCEPT !.sections[n].elements = @ \o r.html]
            /\ files' = r.files
            /\ requested' = requested \cup (IF r.req THEN {"image"} ELSE {})
            /\ transportFailed' = (transportFailed \/ r.fail)
    /\ filtered_messages' = Tail(filtered_messages)
    /\ UNCHANGED <<pc, exc, exit_status, self, queue, queue2, cur, output_written,
                   loopVars, obsVars>>
    /\ UNCHANGED <<cfgVars, probeVars>>

\* the section's closing tag
SectionEnd ==
    /\ pc = "render" /\ filtered_messages = <<>>
    /\ pc' = "generate"
    /\ cur' = NoCur
    /\ UNCHANGED <<exc, exit_status, self, queue, queue2, filtered_messages,
                   export_html, files, output_written, loopVars, obsVars, logVars>>
    /\ UNCHANGED <<cfgVars, probeVars>>

\* a variant that writes the document while sections are still to come
SaveExportEarly ==
    /\ pc = "generate"
    /\ \E written \in BOOLEAN :
         IF written
         THEN /\ output_written' = TRUE
              /\ pc' = "done"
              /\ exit_status' = 0
              /\ UNCHANGED exc
         ELSE /\ pc' = "exit" /\ exit_status' = 1 /\ exc' = "OSError"
              /\ UNCHANGED output_written
    /\ UNCHANGED <<self, queue, queue2, cur, filtered_messages, export_html, files,
                   loopVars, obsVars, logVars>>
    /\ UNCHANGED <<cfgVars, probeVars>>

\* a variant that goes on to the report of success after a failed write
SaveExportUnchecked ==
    /\ pc = "generate" /\ queue = <<>>
    /\ \E written \in BOOLEAN :
         /\ output_written' = written
         /\ pc' = "done"
         /\ exit_status' = 0
         /\ exc' = IF written THEN exc ELSE "OSError"
    /\ UNCHANGED <<self, queue, queue2, cur, filtered_messages, export_html, files,
                   loopVars, obsVars, logVars>>
    /\ UNCHANGED <<cfgVars, probeVars>>

\* the end of generate_html_export, then save_export
SaveExport ==
    /\ pc = "generate" /\ queue = <<>>
    /\ \E written \in BOOLEAN :
         IF written
         THEN /\ output_written' = TRUE
              /\ pc' = "done"
              /\ exit_status' = 0
              /\ UNCHANGED exc
         ELSE /\ Abort("OSError")
              /\ UNCHANGED output_written
    /\ UNCHANGED <<self, queue, queue2, cur, filtered_messages, export_html, files,
                   loopVars, obsVars, logVars>>
    /\ UNCHANGED <<cfgVars, probeVars>>

NoStatus == 0 - 1

Init ==
    /\ ignored_chats \in IgnoreLists
    /\ caps = RunCaps
    /\ probed = NoProbe /\ norm = NoNorm
    /\ pc = "start" /\ exc = "none" /\ exit_status = NoStatus
    /\ self = NewExporter
    /\ queue = <<>> /\ queue2 = <<>> /\ cur = NoCur
    /\ filtered_messages = <<>>
    /\ export_html = NoExport
    /\ files = {}
    /\ output_written = FALSE
    /\ ppc = "idle" /\ url = NoUrl /\ all_items = <<>> /\ listing = "chats"
    /\ gets = [p \in Pages |-> 0] /\ served = <<>> /\ cursor = NoUrl
    /\ failed = FALSE /\ cyc = FALSE /\ lateReq = FALSE
    /\ requested = {} /\ transportFailed = FALSE

Next ==
    \/ Main
    \/ ValidateAccessToken
    \/ FetchAllChats
    \/ PageStep
    \/ ChatsListed
    \/ ProcessChat
    \/ SortChats
    \/ FetchTeams
    \/ TeamsListed
    \/ TeamBegin
    \/ ChannelsListed
    \/ ChannelBegin
    \/ ChannelPageStep
    \/ ChannelFetched
    \/ GenerateHtmlExport
    \/ ChatSectionBegin
    \/ ChatFetched
    \/ ChannelSectionBegin
    \/ RenderMessage
    \/ SectionEnd
    \/ SaveExport

Spec == Init /\ [][Next]_vars

(***************************************************************************)
(* The paginated fetch on its own: one listing of messages, by              *)
(* _make_paginated_request (a chat) or by the inline loop (a channel).      *)
(***************************************************************************)
InitPage ==
    /\ ignored_chats = {}
    /\ caps = RunCaps
    /\ probed = NoProbe /\ norm = NoNorm
    /\ pc = "fetch" /\ exc = "none" /\ exit_status = NoStatus
    /\ self = [NewExporter EXCEPT !.user_display_name = ME]
    /\ queue = <<>> /\ queue2 = <<>> /\ cur = NoCur
    /\ filtered_messages = <<>>
    /\ export_html = NoExport
    /\ files = {}
    /\ output_written = FALSE
    /\ ppc = "loop" /\ url = 1 /\ all_items = <<>>
    /\ listing \in {"chat_messages", "channel_messages"}
    /\ gets = [p \in Pages |-> 0] /\ served = <<>> /\ cursor = 1
    /\ failed = FALSE /\ cyc = FALSE /\ lateReq = FALSE
    /\ requested = {"me"} /\ transportFailed = FALSE

NextPage == PageStep \/ ChannelPageStep

SpecPage == InitPage /\ [][NextPage]_vars

\* each request is answered
SpecPageFair == SpecPage /\ WF_vars(NextPage)

(***************************************************************************)
(* Claims about the paginated fetch.                                        *)
(***************************************************************************)
\* C1: when every request of a finite chain of pages has succeeded, the fetch
\* (the generic one and the inline channel loop) has asked for each page
\* once, has followed the cursors to the end of the chain, and returns the
\* concatenation of the batches in the order the server handed them out.
C1_AllPagesInOrder ==
    (ppc = "returned" /\ ~failed /\ ~cyc) =>
        /\ all_items = served
        /\ cursor = NoUrl
        /\ \A p \in Pages : gets[p] <= 1

\* C2: once the request for a page has failed (non-success status or
\* exception) the fetch has returned, without raising, exactly the items of
\* the pages before it, and no request of the listing follows the failure.
C2_FailureStopsFetch ==
    failed => /\ ppc = "returned"
              /\ all_items = served
              /\ ~lateReq

\* the request for page 2 fails after page 1 has delivered its items
C2_Witness ==
    /\ failed /\ ppc = "returned" /\ listing = "chat_messages"
    /\ gets[1] = 1 /\ gets[2] = 1
    /\ Len(all_items) = MaxBatch

ListingRequests ==
    {"chats", "probe", "members", "teams", "channels", "chat_messages",
     "channel_messages", "image"}

\* C4: when the credential-validation probe has failed, the run has halted
\* with exit status 1, no chat, member, team, channel, message or image
\* request has been issued, no listing is in progress, and no file has been
\* written.
C4_ValidationFailureHalts ==
    exc = "InvalidToken" =>
        /\ pc = "exit" /\ exit_status = 1
        /\ requested \cap ListingRequests = {}
        /\ ppc = "idle"
        /\ ~output_written /\ files = {}
        /\ ~ENABLED Next

\* the probe has failed and the run has ended
C4_Witness == exc = "InvalidToken" /\ pc = "exit" /\ requested = {"me"}

\* the positions of the run at which a listing is in progress
ListingPositions ==
    {"list_chats", "list_teams", "list_channels", "list_channel_messages", "chat_fetch"}

\* C5: after a successful validation no transport failure ends the run: a run
\* that ends early ends for another reason (a message that raises, a failed
\* write), and a listing in progress either goes on or has returned to the
\* step that called it, which continues with what was fetched.
C5_TransportFailureNotFatal ==
    /\ pc = "exit" => exc \in {"NoToken", "InvalidToken", "AttributeError", "OSError"}
    /\ pc \in ListingPositions => (ppc = "returned" \/ (ppc = "loop" /\ url # NoUrl))
    /\ transportFailed => (pc \notin {"start", "validate"} /\ exc \notin {"NoToken", "InvalidToken"})

\* a run in which a request failed after validation has written the document
\* and ended with status 0
C5_Witness ==
    /\ transportFailed /\ pc = "done" /\ exit_status = 0 /\ output_written
    /\ {"chats", "probe", "teams"} \subseteq requested

\* C6: no run is ended by an exception raised while one message is processed:
\* such a message is dropped and the export goes on.
C6_MessageFailureNotFatal == pc = "exit" => exc # "AttributeError"

\* C10: every section of the document that has been completed, of a chat or
\* of a channel, holds at least one message element.
C10_NoEmptySection ==
    \A i \in 1..Len(export_html.sections) :
        (i < Len(export_html.sections) \/ pc \in {"generate", "done"})
            => export_html.sections[i].elements # <<>>

(***************************************************************************)
(* One message through the filters and the renderer: the run from the end   *)
(* of a one-page fetch of a channel's or of a chat's messages, for every    *)
(* message over a small alphabet of markup.                                 *)
(***************************************************************************)
BodyTokens ==
    {Txt("x"), Ws, Ent("lt"), Tag("p"), Tag("/p"), Emoji("E"), Tag("/emoji"),
     Img(GraphUrl, TRUE), Img(OtherUrl, FALSE), SystemEvent, Att("1"),
     Tag("/attachment")}

Bodies == UNION { [1..n -> BodyTokens] : n \in 0..MaxLen }

MessageUniverse ==
    { Message("m1", t, f, "str", b, TimestampOf(1)) :
        t \in {MESSAGE_TYPE_USER, "systemEventMessage"}, f \in {"Alice", NoUser},
        b \in Bodies }
    \cup
    { Message("m1", t, f, form, <<>>, TimestampOf(1)) :
        t \in {MESSAGE_TYPE_USER, "systemEventMessage"}, f \in {"Alice", NoUser},
        form \in {"null", "nocontent"} }

InitMsg ==
    /\ ignored_chats = {}
    /\ caps = RunCaps
    /\ probed = NoProbe /\ norm = NoNorm
    /\ exc = "none" /\ exit_status = NoStatus
    /\ queue = <<>> /\ queue2 = <<>>
    /\ filtered_messages = <<>>
    /\ files = {}
    /\ output_written = FALSE
    /\ ppc = "returned" /\ url = NoUrl
    /\ \E msg \in MessageUniverse : all_items = <<msg>> /\ served = <<msg>>
    /\ gets = [p \in Pages |-> IF p = 1 THEN 1 ELSE 0] /\ cursor = NoUrl
    /\ failed = FALSE /\ cyc = FALSE /\ lateReq = FALSE
    /\ transportFailed = FALSE
    /\ \/ /\ pc = "list_channel_messages" /\ listing = "channel_messages"
          /\ cur = [kind |-> "channel", name |-> "General", id |-> "t1", team |-> "Dev"]
          /\ self = [NewExporter EXCEPT
                       !.user_display_name = ME,
                       !.channels_by_team =
                           <<[k |-> "Dev", v |-> << <<"General", "t1", "ch1">> >>]>>]
          /\ export_html = NoExport
          /\ requested = {"me", "chats", "teams", "channels", "channel_messages"}
       \/ /\ pc = "chat_fetch" /\ listing = "chat_messages"
          /\ cur = [kind |-> "oneonone", name |-> "Budget", id |-> "c1", team |-> ""]
          /\ self = [NewExporter EXCEPT
                       !.user_display_name = ME,
                       !.chats_one_on_one = <<[k |-> "Budget", v |-> "c1"]>>]
          /\ export_html = [sidebar |-> Sidebar(self),
                            sections |-> <<Section(ChatEntities(self.chats_one_on_one,
                                                                "oneonone")[1], <<>>)>>]
          /\ requested = {"me", "chats", "probe", "teams", "chat_messages"}

NextMsg ==
    \/ ChannelFetched
    \/ GenerateHtmlExport
    \/ ChannelSectionBegin
    \/ ChatFetched
    \/ RenderMessage
    \/ SectionEnd
    \/ SaveExport

SpecMsg == InitMsg /\ [][NextMsg]_vars

(***************************************************************************)
(* Claims about the filters and the renderer.                               *)
(***************************************************************************)
InSeq(x, seq) == \E i \in 1..Len(seq) : seq[i] = x

\* the ids of the message elements of the section being built
RenderedIds(h) ==
    LET sec == h.sections[Len(h.sections)]
    IN {sec.elements[j].id : j \in 1..Len(sec.elements)}

\* the step is one iteration of a section's rendering loop
RenderStep == pc = "render" /\ filtered_messages # <<>> /\ filtered_messages' # filtered_messages

\* the placeholders the program makes up itself
Synthetic(msg) == msg.id \in {"no_messages", "ignored_channel"}

\* a raw body that is one of the known-empty stubs
KnownEmptyStub(raw) ==
    LET raw_stripped == Strip(raw) IN
    \/ raw_stripped \in {<<>>, EmptyP, EmptyDiv}
    \/ Contains(raw, SystemEvent)
    \/ /\ Head(raw_stripped).k = "att"
       /\ raw_stripped[Len(raw_stripped)] = Tag("/attachment")

\* the messages C7 speaks of
Qualifies(msg) ==
    /\ msg.messageType = MESSAGE_TYPE_USER
    /\ Sender(msg) # "Unknown"
    /\ msg.bodyForm = "str"
    /\ ~KnownEmptyStub(msg.content)
    /\ HasText(StripTags(msg.content)) \/ ImgMatches(msg.content) # <<>>

\* the messages C9 speaks of
EmptyNoImage(msg) ==
    /\ msg.bodyForm # "null"
    /\ ~HasText(StripTags(RawContent(msg)))
    /\ ImgMatches(RawContent(msg)) = <<>>

\* C7: a qualifying message of a non-ignored chat or channel is kept by each
\* filter it passes (the channel filter after the fetch, the filter loop of
\* its section) and the rendering loop puts its element into the section.
C7_QualifyingMessageRendered ==
    [][ /\ (pc = "list_channel_messages" /\ pc' = "channels") =>
              \A i \in 1..Len(all_items) : Qualifies(all_items[i]) =>
                  InSeq(all_items[i], DictGet(self'.channel_messages, <<cur.team, cur.name>>))
        /\ (pc = "chat_fetch" /\ pc' = "render") =>
              \A i \in 1..Len(all_items) : Qualifies(all_items[i]) =>
                  InSeq(all_items[i], filtered_messages')
        /\ (pc = "generate" /\ pc' = "render") =>
              \A i \in 1..Len(Head(queue).messages) : Qualifies(Head(queue).messages[i]) =>
                  InSeq(Head(queue).messages[i], filtered_messages')
        /\ (RenderStep /\ Qualifies(Head(filtered_messages))) =>
              Head(filtered_messages).id \in RenderedIds(export_html')
      ]_vars

\* C8: the rendering loop of a chat or channel section never puts a message
\* whose type is not the user-message type into the section.
C8_NonUserTypeNeverRendered ==
    [][ (/\ RenderStep
         /\ ~Synthetic(Head(filtered_messages))
         /\ Head(filtered_messages).messageType # MESSAGE_TYPE_USER) =>
            Head(filtered_messages).id \notin RenderedIds(export_html')
      ]_vars

\* C9: for a message whose raw body has no text left after tag stripping and
\* no image reference, validate_message_content returns False, and no
\* rendering loop puts the message into a section.
C9_EmptyBodyDiscarded ==
    [][ /\ \A i \in 1..Len(all_items) :
              EmptyNoImage(all_items[i]) /\ ~ValidateRaises(all_items[i])
                  => ~validate_message_content(all_items[i])
        /\ (RenderStep /\ EmptyNoImage(Head(filtered_messages))) =>
              Head(filtered_messages).id \notin RenderedIds(export_html')
      ]_vars


(***************************************************************************)
(* The second half of a run on its own: fetch_teams_and_channels, then the  *)
(* generation and the save, for a user who has no chats and up to WideTeams *)
(* teams.                                                                   *)
(***************************************************************************)
TeamsCaps ==
    [l \in Listings |->
        CASE l = "chats" -> 0
          [] l = "teams" -> WideTeams
          [] l = "channels" -> MaxTeams
          [] l = "chat_messages" -> 0
          [] OTHER -> FewItems]

InitTeams ==
    /\ ignored_chats = {}
    /\ caps = TeamsCaps
    /\ probed = NoProbe /\ norm = NoNorm
    /\ pc = "fetch_teams" /\ exc = "none" /\ exit_status = NoStatus
    /\ self = [NewExporter EXCEPT !.user_display_name = ME]
    /\ queue = <<>> /\ queue2 = <<>> /\ cur = NoCur
    /\ filtered_messages = <<>>
    /\ export_html = NoExport
    /\ files = {}
    /\ output_written = FALSE
    /\ ppc = "idle" /\ url = NoUrl /\ all_items = <<>> /\ listing = "chats"
    /\ gets = [p \in Pages |-> 0] /\ served = <<>> /\ cursor = NoUrl
    /\ failed = FALSE /\ cyc = FALSE /\ lateReq = FALSE
    /\ requested = {"me", "chats"} /\ transportFailed = FALSE

NextTeams ==
    \/ FetchTeams
    \/ PageStep
    \/ TeamsListed
    \/ TeamBegin
    \/ ChannelsListed
    \/ ChannelBegin
    \/ ChannelPageStep
    \/ ChannelFetched
    \/ GenerateHtmlExport
    \/ ChannelSectionBegin
    \/ RenderMessage
    \/ SectionEnd
    \/ SaveExport

SpecTeams == InitTeams /\ [][NextTeams]_vars

\* the channel is listed under its team in what the sidebar is built from
ListedUnderTeam(s, team, channel) ==
    \E i \in 1..Len(s.channels_by_team) :
        /\ s.channels_by_team[i].k = team
        /\ \E j \in 1..Len(s.channels_by_team[i].v) :
               s.channels_by_team[i].v[j][1] = channel

\* C11: for a channel in IGNORED_CHANNELS no request goes to its messages
\* endpoint, its aggregated message list is exactly the one placeholder, the
\* channel is listed under its team for the sidebar, and its section of the
\* document, once complete, holds exactly one element, the placeholder's.
C11_IgnoredChannelPlaceholder ==
    /\ (pc = "list_channel_messages" /\ ppc = "loop") =>
           <<cur.team, cur.name>> \notin IGNORED_CHANNELS
    /\ \A i \in 1..Len(self.channel_messages) :
           LET key == self.channel_messages[i].k IN
           key \in IGNORED_CHANNELS =>
               /\ self.channel_messages[i].v = <<IgnoredPlaceholder(key[1], key[2])>>
               /\ pc \in {"generate", "render", "done"} =>
                      ListedUnderTeam(self, key[1], key[2])
    /\ \A n \in 1..Len(export_html.sections) :
           LET sec == export_html.sections[n] IN
           (/\ sec.kind = "channel"
            /\ <<sec.team, sec.name>> \in IGNORED_CHANNELS
            /\ (n < Len(export_html.sections) \/ pc \in {"generate", "done"})) =>
               /\ Len(sec.elements) = 1
               /\ sec.elements[1].id = "ignored_channel"


\* the names under which the chat of this id is kept in the three mappings
NamesOfChat(s, id) ==
    UNION { { d[i].k : i \in {j \in 1..Len(d) : d[j].v = id} } :
              d \in {s.chats_one_on_one, s.chats_group, s.chats_meeting} }

\* C12: a chat whose display name is in IGNORED_CHATS is in the sidebar, its
\* section is complete with exactly one element, the ignore message, and no
\* request goes to the chat's messages endpoint: neither the probe of the
\* inclusion check (sent by the step that processes the chat) nor the fetch.
C12_IgnoredChatNotRequested ==
    [][ /\ (pc = "process_chats" /\ queue # <<>>) =>
              NamesOfChat(self', Head(queue).id) \cap IGNORED_CHATS = {}
        /\ pc' = "chat_fetch" => cur'.name \notin IGNORED_CHATS
        /\ (/\ pc = "generate" /\ queue # <<>>
            /\ Head(queue).kind # "channel"
            /\ Head(queue).name \in IGNORED_CHATS) =>
              /\ InSeq(Head(queue).name, export_html.sidebar[Head(queue).kind])
              /\ pc' = "generate"
              /\ LET sec == export_html'.sections[Len(export_html'.sections)] IN
                   /\ sec.name = Head(queue).name
                   /\ Len(sec.elements) = 1
                   /\ sec.elements[1].id = "ignored_chat"
      ]_vars


(***************************************************************************)
(* The processing of one listed chat on its own: the loop of                *)
(* fetch_all_chats for one chat, with the longer histories and the member   *)
(* lists, for either display name the constructor can have stored.          *)
(***************************************************************************)
ProcessChatWide == ProcessChatWith(WideHistories, WideMemberResponses)

InitChats ==
    /\ ignored_chats = {}
    /\ caps = RunCaps
    /\ probed = NoProbe /\ norm = NoNorm
    /\ pc = "process_chats" /\ exc = "none" /\ exit_status = NoStatus
    /\ \E name \in {ME, "Unknown User"} :
         self = [NewExporter EXCEPT !.user_display_name = name]
    /\ \E shape \in WideChatShapes : queue = <<ItemOf("chats", shape, 1)>>
    /\ queue2 = <<>> /\ cur = NoCur
    /\ filtered_messages = <<>>
    /\ export_html = NoExport
    /\ files = {}
    /\ output_written = FALSE
    /\ ppc = "idle" /\ url = NoUrl /\ all_items = <<>> /\ listing = "chats"
    /\ gets = [p \in Pages |-> 0] /\ served = <<>> /\ cursor = NoUrl
    /\ failed = FALSE /\ cyc = FALSE /\ lateReq = FALSE
    /\ requested = {"me", "chats"} /\ transportFailed = FALSE

NextChats == ProcessChatWide \/ SortChats

SpecChats == InitChats /\ [][NextChats]_vars

\* the chat of this id is in one of the name-to-id mappings
Included(s, id) == NamesOfChat(s, id) # {}

\* C13: the chat that has just been processed is in a name-to-id mapping if
\* and only if its history holds a user message, wherever in the history.
C13_IncludedIffAuthoredMessage ==
    (pc = "process_chats" /\ probed # NoProbe) =>
        (Included(self, probed.chat.id) <=>
            \E i \in 1..Len(probed.history) : probed.history[i] = MESSAGE_TYPE_USER)


\* the members of the chat processed last other than the authenticated user
OtherMembers == Without(get_chat_members(probed.members), ME)

\* C19: a direct chat that has been included is kept under its topic when the
\* topic is not empty, else under "Chat with X", X the name of the member
\* other than the authenticated user, "Unknown" when there is none (also
\* when the members request failed).
C19_DirectChatName ==
    (/\ pc = "process_chats"
     /\ probed.chat.chatType = CHAT_TYPE_ONE_ON_ONE
     /\ Included(self, probed.chat.id)) =>
        LET names == NamesOfChat(self, probed.chat.id) IN
        /\ ~Falsy(probed.chat.topic) => names = {probed.chat.topic}
        /\ (Falsy(probed.chat.topic) /\ OtherMembers = <<>>) =>
               names = {"Chat with Unknown"}
        /\ (Falsy(probed.chat.topic) /\ Len(OtherMembers) = 1) =>
               names = {"Chat with " \o OtherMembers[1]}

\* C20: a group chat that has been included, with other members m1..mk: with
\* an empty topic its name is "Group: " and the first min(k, N) names joined
\* by ", ", followed by "..." exactly when k > N; with a topic its name is the
\* topic; either way the list stored for the tooltip is all k names joined.
C20_GroupChatName ==
    (/\ pc = "process_chats"
     /\ probed.chat.chatType = CHAT_TYPE_GROUP
     /\ Included(self, probed.chat.id)
     /\ OtherMembers # <<>>) =>
        LET names == NamesOfChat(self, probed.chat.id)
            k == Len(OtherMembers)
            N == MAX_MEMBERS_IN_CHAT_NAME
            shown == "Group: " \o JoinNames(SubSeq(OtherMembers, 1, Min(k, N)))
                       \o (IF k > N THEN "..." ELSE "")
            name == IF ~Falsy(probed.chat.topic) THEN probed.chat.topic ELSE shown
        IN /\ names = {name}
           /\ DictGet(self.group_full_member_lists, name) = JoinNames(OtherMembers)


(***************************************************************************)
(* The normalizer on its own: process_message_content on one body, in one   *)
(* export run and in the runs after it, over the same image folder.         *)
(***************************************************************************)
NormTokens ==
    { Img(GraphUrl, FALSE), Img(GraphUrl2, FALSE), Img(OtherUrl, TRUE),
      Emoji("E"), EmojiSelfClosing("E"), Tag("/emoji"), Txt("x") }

NormBodies == UNION { [1..n -> NormTokens] : n \in 0..NormLen }

InitNorm ==
    /\ ignored_chats = {}
    /\ caps = RunCaps
    /\ probed = NoProbe
    /\ \E raw \in NormBodies : norm = [raw |-> raw, id |-> "m1", calls |-> <<>>, again |-> <<>>]
    /\ pc = "normalize" /\ exc = "none" /\ exit_status = NoStatus
    /\ self = [NewExporter EXCEPT !.user_display_name = ME]
    /\ queue = <<>> /\ queue2 = <<>> /\ cur = NoCur
    /\ filtered_messages = <<>>
    /\ export_html = NoExport
    /\ files = {}
    /\ output_written = FALSE
    /\ ppc = "idle" /\ url = NoUrl /\ all_items = <<>> /\ listing = "chats"
    /\ gets = [p \in Pages |-> 0] /\ served = <<>> /\ cursor = NoUrl
    /\ failed = FALSE /\ cyc = FALSE /\ lateReq = FALSE
    /\ requested = {"me"} /\ transportFailed = FALSE

\* one call of process_message_content on the body; before is the image
\* folder as the call found it
NormalizeBody ==
    /\ pc = "normalize" /\ Len(norm.calls) < MaxRuns
    /\ \E outs \in [1..NumImages(norm.raw) -> DownloadOutcomes] :
         LET r == process_message_content(norm.raw, norm.id, files, outs) IN
         /\ norm' = [norm EXCEPT !.calls =
                        Append(@, [content |-> r.content, log |-> r.log,
                                   before |-> files])]
         /\ files' = r.files
         /\ requested' = requested \cup (IF r.req THEN {"image"} ELSE {})
         /\ transportFailed' = (transportFailed \/ r.fail)
    /\ UNCHANGED <<pc, exc, exit_status, self, queue, queue2, cur, filtered_messages,
                   export_html, output_written, loopVars, obsVars, cfgVars, probed>>

NextNorm == NormalizeBody

SpecNorm == InitNorm /\ [][NextNorm]_vars

\* the image elements of a markup, in order
RECURSIVE ImgElements(_)
ImgElements(s) ==
    IF s = <<>> THEN <<>>
    ELSE (IF Head(s).k = "img" THEN <<Head(s)>> ELSE <<>>) \o ImgElements(Tail(s))

\* the image elements the loop of process_message_content goes over
References == ImgElements(replace_emoji_tags(Unescape(norm.raw)))

\* C14: a hosted image whose download failed, by a non-success status or by a
\* network error, keeps its remote URL as src in the output; every reference
\* of the body has been processed and the call has returned its markup.
C14_FailedDownloadKeepsUrl ==
    \A n \in 1..Len(norm.calls) :
        LET call == norm.calls[n] IN
        /\ Len(call.log) = Len(References)
        /\ Len(ImgElements(call.content)) = Len(References)
        /\ \A i \in 1..Len(call.log) :
               call.log[i] \in {"http_error", "exception"} =>
                   ImgElements(call.content)[i].v = References[i].v

\* C15: the hosted image at 0-based position i that was downloaded is in the
\* file LocalPath(id, i), and the src of that element in the output is that
\* path, whatever the other references of the body are.
C15_IndexedFileAndSrc ==
    \A n \in 1..Len(norm.calls) :
        LET call == norm.calls[n] IN
        \A i \in 1..Len(call.log) :
            call.log[i] = "ok" =>
                /\ LocalPath(norm.id, i - 1) \in files
                /\ ImgElements(call.content)[i].v = LocalPath(norm.id, i - 1)

\* C17: an image that is not hosted on the platform is not requested, gets no
\* file, and its element in the output is the element of the input, with the
\* same src and the same other attributes.
C17_ExternalImageUntouched ==
    \A n \in 1..Len(norm.calls) :
        LET call == norm.calls[n] IN
        \A i \in 1..Len(call.log) :
            ~IsGraphHosted(References[i].v) =>
                /\ call.log[i] = "skipped"
                /\ LocalPath(norm.id, i - 1) \notin files
                /\ ImgElements(call.content)[i] = References[i]

\* every emoji element of the body is complete: self-closing, or an opening
\* tag with its closing tag right after it
EmojiElementsComplete(s) ==
    \A j \in 1..Len(s) :
        /\ (s[j].k = "emoji" /\ ~s[j].x) => (j < Len(s) /\ s[j + 1] = Tag("/emoji"))
        /\ s[j] = Tag("/emoji") => (j > 1 /\ s[j - 1].k = "emoji" /\ ~s[j - 1].x)

\* C18: the output of the normalizer for a body with emoji elements, each
\* self-closing or with its closing tag, holds no emoji markup, neither an
\* element nor a closing tag, and holds the fallback text of each of them.
C18_EmojiReplacedByFallback ==
    \A n \in 1..Len(norm.calls) :
        LET call == norm.calls[n] IN
        \A j \in 1..Len(norm.raw) :
            (norm.raw[j].k = "emoji" /\ EmojiElementsComplete(norm.raw)) =>
                /\ \A m \in 1..Len(call.content) :
                       /\ call.content[m].k # "emoji"
                       /\ call.content[m] # Tag("/emoji")
                /\ InSeq(Txt(norm.raw[j].v), call.content)


\* the (1-based) positions of the references whose local file was in the
\* image folder when the call began
Resolved(call) ==
    { i \in 1..Len(References) : LocalPath(norm.id, i - 1) \in call.before }

\* the positions of the references hosted on the platform
Hosted == { i \in 1..Len(References) : IsGraphHosted(References[i].v) }

\* C16 as stated: in a re-run that finds the local file of a reference, no
\* request is issued for that reference, the file is not written, and the
\* output markup is that of the run before.
C16_RerunIdentical ==
    \A n \in 2..Len(norm.calls) :
        LET call == norm.calls[n] IN
        \A i \in Resolved(call) \cap Hosted :
            /\ call.log[i] = "cached"
            /\ LocalPath(norm.id, i - 1) \in files
            /\ call.content = norm.calls[n - 1].content

\* C16, amended: in a re-run no request is issued for a reference whose local
\* file is there, and that file is not written; when every hosted reference
\* of the body has its file, the re-run issues no request at all, leaves the
\* image folder as it was and returns the markup of the run before.
C16_RerunIdenticalWhenAllResolved ==
    \A n \in 2..Len(norm.calls) :
        LET call == norm.calls[n] IN
        /\ \A i \in Resolved(call) \cap Hosted :
               /\ call.log[i] = "cached"
               /\ LocalPath(norm.id, i - 1) \in files
        /\ Hosted \subseteq Resolved(call) =>
               /\ \A i \in 1..Len(call.log) : call.log[i] \in {"cached", "skipped"}
               /\ n = Len(norm.calls) => files = call.before
               /\ call.content = norm.calls[n - 1].content

\* a re-run of a body with two hosted images, both files there, has returned
\* the markup of the run before without a request
C16_Witness ==
    /\ Len(norm.calls) = 2
    /\ Cardinality(Hosted) = 2
    /\ Hosted \subseteq Resolved(norm.calls[2])
    /\ norm.calls[2].log = <<"cached", "cached">>
    /\ norm.calls[2].content = norm.calls[1].content


C29_FetchAllChatsNeverRaises ==
    [][pc = "process_chats" => pc' # "exit"]_vars


\* the creation timestamp of the message an element was rendered from
CreatedOf(id) ==
    TimestampOf(CHOOSE n \in 1..MaxItems : id = "m" \o ToString(n))

\* the elements of a section that were rendered from messages of the server
FromServer(sec) ==
    { i \in 1..Len(sec.elements) :
        \E n \in 1..MaxItems : sec.elements[i].id = "m" \o ToString(n) }

\* C22: in every section of the document the elements are in ascending order
\* of the creation timestamps of their messages, compared as strings: none
\* comes before one with a smaller timestamp.
C22_SectionsInCreationOrder ==
    \A k \in 1..Len(export_html.sections) :
        LET sec == export_html.sections[k] IN
        \A i, j \in FromServer(sec) :
            i < j => ~StrLess(CreatedOf(sec.elements[j].id), CreatedOf(sec.elements[i].id))

\* a section holds the second message of the server before the first, which
\* was created later
C22_Witness ==
    \E k \in 1..Len(export_html.sections) :
        LET sec == export_html.sections[k] IN
        /\ Len(sec.elements) = 2
        /\ sec.elements[1].id = "m2" /\ sec.elements[2].id = "m1"
        /\ StrLess(CreatedOf("m2"), CreatedOf("m1"))


\* ---------------------------------------------------------------------
\* fetch_all_chats on a list of MaxSorted chats, each with a user message
\* ---------------------------------------------------------------------

InitSort ==
    /\ ignored_chats = {}
    /\ caps = RunCaps
    /\ probed = NoProbe /\ norm = NoNorm
    /\ pc = "process_chats" /\ exc = "none" /\ exit_status = NoStatus
    /\ self = [NewExporter EXCEPT !.user_display_name = ME]
    /\ \E shapes \in [1..MaxSorted -> SortChatShapes] :
         queue = [n \in 1..MaxSorted |-> ItemOf("chats", shapes[n], n)]
    /\ queue2 = <<>> /\ cur = NoCur
    /\ filtered_messages = <<>>
    /\ export_html = NoExport
    /\ files = {}
    /\ output_written = FALSE
    /\ ppc = "idle" /\ url = NoUrl /\ all_items = <<>> /\ listing = "chats"
    /\ gets = [p \in Pages |-> 0] /\ served = <<>> /\ cursor = NoUrl
    /\ failed = FALSE /\ cyc = FALSE /\ lateReq = FALSE
    /\ requested = {"me", "chats"} /\ transportFailed = FALSE

NextSort == ProcessChat \/ SortChats

SpecSort == InitSort /\ [][NextSort]_vars

\* the names of the mapping ascend when lower-cased
AscendingLowered(d) ==
    \A i, j \in 1..Len(d) : i < j => ~StrLess(Lower(d[j].k), Lower(d[i].k))

\* the two mappings hold the same entries
SameEntries(d, e) ==
    /\ Len(d) = Len(e)
    /\ { d[i] : i \in 1..Len(d) } = { e[i] : i \in 1..Len(e) }

\* C23: the step that ends fetch_all_chats leaves each of the three mappings
\* in ascending order of the lower-cased name, with the entries it had before.
C23_MappingsSortedByLoweredName ==
    [][(pc = "process_chats" /\ pc' = "fetch_teams") =>
         /\ AscendingLowered(self'.chats_one_on_one)
         /\ AscendingLowered(self'.chats_group)
         /\ AscendingLowered(self'.chats_meeting)
         /\ SameEntries(self.chats_one_on_one, self'.chats_one_on_one)
         /\ SameEntries(self.chats_group, self'.chats_group)
         /\ SameEntries(self.chats_meeting, self'.chats_meeting)]_vars

\* the meeting chats "Zeta" and "budget" were stored in this order and are
\* in the other order after the sort
C23_Witness ==
    /\ pc = "fetch_teams"
    /\ self.chats_meeting = << [k |-> "budget", v |-> "c2"], [k |-> "Zeta", v |-> "c1"] >>


\* C24: once the write of the document has failed the process has left with
\* status 1 and the run is never reported as completed; a run reported as
\* completed has written the document.
C24_FailedWriteExitsWithoutSuccess ==
    /\ exc = "OSError" => (pc = "exit" /\ exit_status = 1 /\ ~output_written)
    /\ pc = "done" => (output_written /\ exit_status = 0 /\ exc = "none")

\* every section was generated and the write of the document failed
C24_Witness ==
    /\ exc = "OSError" /\ pc = "exit"
    /\ export_html.sections # <<>>


\* ---------------------------------------------------------------------
\* process_message_content called on markup it has returned
\* ---------------------------------------------------------------------

\* one call of process_message_content on the markup the last call returned
NormalizeOutput ==
    /\ pc = "normalize" /\ norm.calls # <<>> /\ norm.again = <<>>
    /\ LET input == norm.calls[Len(norm.calls)].content IN
       \E outs \in [1..NumImages(input) -> DownloadOutcomes] :
         LET r == process_message_content(input, norm.id, files, outs) IN
         /\ norm' = [norm EXCEPT !.again =
                        <<[input |-> input, content |-> r.content, log |-> r.log]>>]
         /\ files' = r.files
         /\ requested' = requested \cup (IF r.req THEN {"image"} ELSE {})
         /\ transportFailed' = (transportFailed \/ r.fail)
    /\ UNCHANGED <<pc, exc, exit_status, self, queue, queue2, cur, filtered_messages,
                   export_html, output_written, loopVars, obsVars, cfgVars, probed>>

NextRenorm == NormalizeBody \/ NormalizeOutput

SpecRenorm == InitNorm /\ [][NextRenorm]_vars

\* the markups process_message_content has returned
Outputs ==
    { norm.calls[n].content : n \in 1..Len(norm.calls) }
        \cup { norm.again[n].content : n \in 1..Len(norm.again) }

\* the hyperlinks that are open where element j of the markup stands
Enclosing(s, j) ==
    Cardinality({ i \in 1..(j - 1) : s[i].k = "a" })
        - Cardinality({ i \in 1..(j - 1) : s[i] = Tag("/a") })

\* element j stands right inside a lightbox hyperlink to its own source,
\* and inside no other hyperlink
WrappedOnce(s, j) ==
    /\ 1 < j /\ j < Len(s)
    /\ s[j - 1] = Anchor(s[j].v) /\ s[j + 1] = Tag("/a")
    /\ Enclosing(s, j) = 1

\* C25: in every markup the normalizer has returned, each image element has
\* its src as only attribute and stands in exactly one hyperlink, a lightbox
\* hyperlink whose href is that src.
C25_ImagesCleanAndWrappedOnce ==
    \A s \in Outputs :
        \A j \in 1..Len(s) :
            s[j].k = "img" => (~s[j].x /\ WrappedOnce(s, j))

\* the source is a file of the image folder
IsLocal(u) == \E i \in 0..NormLen : u = LocalPath(norm.id, i)

\* every image of the markup has a local file as source and stands in its
\* lightbox hyperlink
ResolvedAndWrapped(s) ==
    \A j \in 1..Len(s) :
        s[j].k = "img" => (IsLocal(s[j].v) /\ ~s[j].x /\ WrappedOnce(s, j))

\* C26: a markup whose images are resolved to local files and wrapped comes
\* back from the normalizer as it went in, and no download is requested.
C26_NormalizationIdempotent ==
    \A n \in 1..Len(norm.again) :
        LET a == norm.again[n] IN
        ResolvedAndWrapped(a.input) =>
            /\ a.content = a.input
            /\ \A i \in 1..Len(a.log) : a.log[i] = "skipped"


\* the entries (channel name, team id, channel id) of the channel lists
ChannelEntries(s) ==
    UNION { { s.channels_by_team[i].v[j] : j \in 1..Len(s.channels_by_team[i].v) } :
              i \in 1..Len(s.channels_by_team) }

\* C27: no step of the fetching takes an entity out of the aggregation: a
\* chat that has an entry of its own id in a mapping keeps one, and a channel
\* that is in the channel list of its team stays in it, also when another
\* chat or team of the same display name is stored.
C27_NoEntityLost ==
    [][/\ \A n \in 1..MaxSorted :
            LET id == "c" \o ToString(n) IN
            Included(self, id) => Included(self', id)
       /\ ChannelEntries(self) \subseteq ChannelEntries(self')]_vars


\* C28: once the validation of the credential has succeeded, the display name
\* the exporter compares members and senders with is not the fallback
\* 'Unknown User' of a failed identity request.
C28_NameFromIdentityEndpoint ==
    pc \notin {"start", "validate", "exit"} =>
        self.user_display_name # "Unknown User"


\* the step of run_export a position of the run belongs to: validation, the
\* chats, the teams and channels, the generation, the end, the exit
Phase(p) ==
    CASE p \in {"start", "validate"} -> 1
      [] p \in {"fetch_chats", "list_chats", "process_chats"} -> 2
      [] p \in {"fetch_teams", "list_teams", "channels", "list_channels",
                "list_channel_messages"} -> 3
      [] p \in {"generate", "chat_fetch", "render"} -> 4
      [] p = "done" -> 5
      [] OTHER -> 6

\* the chats and channels the document gets a section for
NumEntities(s) ==
    Len(s.chats_one_on_one) + Len(s.chats_group) + Len(s.chats_meeting)
        + Len(s.channel_messages)

\* C30: a step of the run stays in its phase, goes on to the next one or
\* leaves the process; the document is written by one step only, after the
\* section of every chat and channel has been generated, and it stays
\* written; a run that leaves the process has status 1 and no document.
C30_StrictSequenceOneWrite ==
    [][/\ Phase(pc') \in {Phase(pc), Phase(pc) + 1, 6}
       /\ output_written => output_written'
       /\ (~output_written /\ output_written') =>
              /\ pc = "generate" /\ pc' = "done" /\ queue = <<>>
              /\ Len(export_html.sections) = NumEntities(self)
       /\ pc' = "done" => (~output_written /\ output_written')
       /\ pc' = "exit" => (exit_status' = 1 /\ ~output_written')]_vars

\* the document was written after the sections of a chat and of a channel
C30_Witness ==
    /\ pc = "done" /\ output_written /\ exit_status = 0
    /\ Len(export_html.sections) = 2
    /\ export_html.sections[1].kind # "channel"
    /\ export_html.sections[2].kind = "channel"

====
